---- MODULE Spec2Model ----
(***************************************************************************)
(* A model of the airlane conversation core: the agent router (POST of     *)
(* app/api/airlane/route.ts) and the three agents it dispatches to         *)
(* (OnboardingAgent, CodeGenerationAgent, EditingAgent), together with the *)
(* caller that hands each returned context back on the next turn.          *)
(***************************************************************************)
EXTENDS Integers, Sequences, FiniteSets, TLC

\* ------------------------------------------------------------------ bounds
\* Number of turns the echoing caller drives in SpecEcho.
MaxTurns == 5
\* Largest reading of Date.now() (milliseconds since the first request).
MaxClock == 1
\* Number of concurrent first calls of getBaselineCssProperties in SpecRace.
MaxCallers == 3

\* ------------------------------------------------------- JavaScript values
\* A JavaScript value is a record [type, val]; val is a string for scalars,
\* a function from property names to values for objects, and a sequence of
\* values for arrays.
Undefined == [type |-> "undefined", val |-> "undefined"]
Null == [type |-> "null", val |-> "null"]
Str(s) == [type |-> "string", val |-> s]
Num(s) == [type |-> "number", val |-> s]
Obj(f) == [type |-> "object", val |-> f]
Arr(q) == [type |-> "array", val |-> q]
EmptyObject == [k \in {} |-> Undefined]

\* ToBoolean(v): the values JavaScript treats as true in !v, v || w, if (v).
Truthy(v) ==
  CASE v.type \in {"undefined", "null"} -> FALSE
    [] v.type = "string" -> v.val # ""
    [] v.type = "number" -> v.val # "0"
    [] OTHER -> TRUE

\* typeof v === 'string'
IsString(v) == v.type = "string"

\* o[k] for the property map of an object: a missing key reads as undefined.
Get(o, k) == IF k \in DOMAIN o THEN o[k] ELSE Undefined

\* v.k throws a TypeError when v is null or undefined.
PropThrows(v) == v.type \in {"undefined", "null"}

\* v.k for a value that is not null or undefined: objects read their property
\* map, every other value has no such own property.
Prop(v, k) == IF v.type = "object" THEN Get(v.val, k) ELSE Undefined

\* The own enumerable properties an object spread {...v} copies: the property
\* map of an object, nothing for null, undefined and numbers. (A string or an
\* array would spread its indices; no reply of the model carries one as
\* updated_data.)
SpreadOf(v) == IF v.type = "object" THEN v.val ELSE EmptyObject

\* { ...a, ...b } on property maps: b's keys overwrite, a's other keys stay.
Merge(a, b) ==
  [k \in (DOMAIN a) \cup (DOMAIN b) |-> IF k \in DOMAIN b THEN b[k] ELSE a[k]]

\* ------------------------------------------------------------ model replies
\* The raw text of a model reply is a sequence of tokens [tok, val]. The
\* tokens "{" and "}" are the brace characters, "fence_json" and "fence" the
\* markdown fences (three backticks, with and without the word json), "nl" a
\* line break, "prose" text without braces or fences, "members" the text between the braces of a JSON object (val is the
\* object it denotes), "junk" text that is no JSON, and "literal" a JSON
\* value that is not an object (val is that value).
Tok(k) == [tok |-> k, val |-> Undefined]
Members(f) == [tok |-> "members", val |-> Obj(f)]
Literal(v) == [tok |-> "literal", val |-> v]

Parsed(v) == [ok |-> TRUE, value |-> v]
ParseError == [ok |-> FALSE, value |-> Undefined]

RECURSIVE TrimLeft(_)
TrimLeft(text) ==
  IF text # <<>> /\ Head(text).tok = "nl" THEN TrimLeft(Tail(text)) ELSE text

RECURSIVE TrimRight(_)
TrimRight(text) ==
  IF text # <<>> /\ text[Len(text)].tok = "nl"
  THEN TrimRight(SubSeq(text, 1, Len(text) - 1))
  ELSE text

\* JSON.parse: whitespace around the value is skipped; the value is an
\* object, or a literal; anything else is a SyntaxError.
JsonParse(text) ==
  LET t == TrimRight(TrimLeft(text)) IN
  CASE Len(t) = 3 /\ t[1].tok = "{" /\ t[2].tok = "members" /\ t[3].tok = "}"
         -> Parsed(t[2].val)
    [] Len(t) = 2 /\ t[1].tok = "{" /\ t[2].tok = "}" -> Parsed(Obj(EmptyObject))
    [] Len(t) = 1 /\ t[1].tok = "literal" -> Parsed(t[1].val)
    [] OTHER -> ParseError

\* responseText.replace(...): a fence_json that starts the text is removed,
\* with the line break after it when there is one.
StripLeadingFence(text) ==
  IF text # <<>> /\ Head(text).tok = "fence_json"
  THEN IF Tail(text) # <<>> /\ Head(Tail(text)).tok = "nl"
       THEN Tail(Tail(text))
       ELSE Tail(text)
  ELSE text

\* text.replace(...): only a fence that is the very end of the text is removed.
StripTrailingFence(text) ==
  IF text # <<>> /\ text[Len(text)].tok = "fence"
  THEN SubSeq(text, 1, Len(text) - 1)
  ELSE text

\* OnboardingAgent.parseLlmResponse and CodeGenerationAgent.parseLlmResponse.
FenceParse(text) == JsonParse(StripTrailingFence(StripLeadingFence(text)))

\* indexOf('{') and lastIndexOf('}') as token positions, 0 when absent.
IndexOfOpen(text) ==
  LET S == {i \in 1..Len(text) : text[i].tok = "{"} IN
  IF S = {} THEN 0 ELSE CHOOSE i \in S : \A j \in S : i <= j

LastIndexOfClose(text) ==
  LET S == {i \in 1..Len(text) : text[i].tok = "}"} IN
  IF S = {} THEN 0 ELSE CHOOSE i \in S : \A j \in S : j <= i

\* EditingAgent.parseLlmResponse: the text from the first '{' to the last '}'.
\* String.substring swaps its arguments when the start exceeds the end.
BraceParse(text) ==
  LET jsonStart == IndexOfOpen(text)
      jsonEnd == LastIndexOfClose(text)
  IN IF jsonStart = 0 \/ jsonEnd = 0
     THEN ParseError
     ELSE IF jsonStart - 1 <= jsonEnd
          THEN JsonParse(SubSeq(text, jsonStart, jsonEnd))
          ELSE JsonParse(SubSeq(text, jsonEnd + 1, jsonStart - 1))

\* -------------------------------------------------------- data of the model
Prompts == {"p1", "p2"}

\* Property maps are built from pairs.
Pair(k, v) == [x \in {k} |-> v]

\* Parsed replies of the shape the onboarding prompt asks for.
OnbAdvance ==
  Merge(Merge(Pair("speech", Str("tell me more")),
              Pair("ui", Obj(Pair("type", Str("TEXT_AREA_INPUT"))))),
        Merge(Pair("updated_data", Obj(Pair("business_name", Str("Acme")))),
              Pair("next_state", Str("CORE_INFO"))))
OnbFinal ==
  Merge(Merge(Pair("speech", Str("all set")),
              Pair("ui", Null)),
        Merge(Pair("updated_data",
                   Obj(Merge(Pair("style_preference", Str("modern")),
                             Pair("key_features", Arr(<<Str("fast"), Str("cheap")>>))))),
              Pair("next_state", Str("FINALIZING"))))
\* A reply that carries no updated_data and no next_state.
OnbBare == Pair("speech", Str("hm"))

\* Parsed replies of the shape the code prompts ask for.
Code(h, c, j) == Merge(Pair("html", h), Merge(Pair("css", c), Pair("js", j)))
CodeFull == Code(Str("<p>B</p>"), Str("p{color:red}"), Str("go()"))
CodeEmptyCssJs == Code(Str("<div/>"), Str(""), Str(""))
CodeNoJs == Merge(Pair("html", Str("<p>B</p>")), Pair("css", Str("p{color:red}")))
CodeNumberHtml == Code(Num("1"), Str("p{color:red}"), Str("go()"))

ReplyObjects ==
  {OnbAdvance, OnbFinal, OnbBare, CodeFull, CodeEmptyCssJs, CodeNoJs, CodeNumberHtml}

\* The raw texts a generation call may return.
Bare(f) == <<Tok("{"), Members(f), Tok("}")>>
Fenced(f) ==
  <<Tok("fence_json"), Tok("nl"), Tok("{"), Members(f), Tok("}"), Tok("nl"), Tok("fence")>>
InProse(f) == <<Tok("prose"), Tok("{"), Members(f), Tok("}"), Tok("prose")>>
ReplyTexts ==
  {Bare(f) : f \in ReplyObjects}
    \cup {Fenced(OnbFinal), Fenced(CodeFull), InProse(CodeFull)}
    \cup {<<Tok("prose")>>, <<Tok("{"), Tok("junk"), Tok("}")>>, <<Literal(Null)>>,
          <<Literal(Num("5"))>>, <<Tok("}"), Literal(Num("1")), Tok("{")>>}

\* The outcome of geminiModel.generateContent(...): it throws, or it returns
\* a text.
Threw == [threw |-> TRUE, text |-> <<>>]
Returned(text) == [threw |-> FALSE, text |-> text]
Outcomes == {Threw} \cup {Returned(t) : t \in ReplyTexts}
NoOutcome == [threw |-> FALSE, text |-> <<>>]

\* The artifacts a request may carry as generatedCode: none, a complete one,
\* one without css and js.
Artifacts ==
  {Undefined, Null, Obj(Code(Str("<p>A</p>"), Str("p{color:red}"), Str(""))),
   Obj(Pair("html", Str("<p>A</p>")))}

\* The conversation contexts a request may carry.
welcomeSpeech == Str("Hello! ... what is the name of your business or project?")
Histories ==
  {<<>>, <<<<"agent", welcomeSpeech>>, <<"user", Str("p1")>>, <<"agent", Str("tell me more")>>>>}
Infos ==
  {EmptyObject,
   Pair("business_name", Str("Old")),
   Merge(Pair("business_name", Str("Old")), Pair("key_features", Str("fast")))}
Goals ==
  {Undefined, Null, Str("onboard_user"), Str("generate_landing_page"),
   Str("edit_code"), Str("completed"), Str("something_else")}
OnboardingStates == {"GREETING", "CORE_INFO", "DEEP_DIVE", "BRANDING", "FINALIZING"}
RequestStates == {Str("GREETING"), Str("BRANDING"), Str("FINALIZING")}

Context(h, i, g, s) ==
  [history |-> h, collected_info |-> i, goal |-> g, onboarding_state |-> s]
Contexts ==
  {Null} \cup
  {Context(h, i, g, s) : h \in Histories, i \in Infos, g \in Goals, s \in RequestStates}

\* The readings of Date.now() and of Math.random() in an id.
Clock == 0..MaxClock
Rands == {"r1", "r2"}
Id(prefix, t, r) == [prefix |-> prefix, time |-> t, rand |-> r]

\* ---------------------------------------------------------------- responses
AgentResponse(id, status, speech, ui, action, context) ==
  [kind |-> "AgentResponse", id |-> id, status |-> status, speech |-> speech,
   ui |-> ui, action |-> action, context |-> context]

\* The body NextResponse.json(..., {status: 500}) of the router's catch.
InternalError(details) ==
  [kind |-> "InternalError", httpStatus |-> "500",
   error |-> "An internal server error occurred in the agent router.",
   details |-> details]

NoResponse == [kind |-> "none"]

Action(type) == Obj(Pair("type", Str(type)))
ActionWith(type, payload) ==
  Obj(Merge(Pair("type", Str(type)), Pair("payload", payload)))
Ui(type, props) == Obj(Merge(Pair("type", Str(type)), Pair("props", props)))

\* a || b
OrElse(a, b) == IF Truthy(a) THEN a ELSE b

\* ---------------------------------------------------------- OnboardingAgent
finalSpeech == Str("Amazing! ... This should just take a moment...")
onboardingApology == Str("My apologies, I seem to have lost my train of thought. ...")

\* Mutant: the greeting is not recorded in the first history.
initiateConversation_NoHistory(t) ==
  AgentResponse(
    Id("response-init-", t, ""), "AWAITING_INPUT", welcomeSpeech,
    Ui("TEXT_INPUT", Obj(Merge(Pair("title", Str("Your Business Name")),
                               Pair("buttonText", Str("Continue"))))),
    Action("REQUEST_USER_INPUT"),
    Context(<<>>, EmptyObject, Str("onboard_user"), Str("GREETING")))

initiateConversation(t) ==
  AgentResponse(
    Id("response-init-", t, ""), "AWAITING_INPUT", welcomeSpeech,
    Ui("TEXT_INPUT", Obj(Merge(Pair("title", Str("Your Business Name")),
                               Pair("buttonText", Str("Continue"))))),
    Action("REQUEST_USER_INPUT"),
    Context(<<<<"agent", welcomeSpeech>>>>, EmptyObject, Str("onboard_user"),
            Str("GREETING")))

\* Mutant: the completion response leaves the goal as it was.
generateCompletionResponse_KeepGoal(context, t) ==
  AgentResponse(
    Id("response-complete-", t, ""), "PROCESSING", finalSpeech,
    Ui("KEY_VALUE_DISPLAY",
       Obj(Pair("items", Arr(<<OrElse(Get(context.collected_info, "business_name"),
                                      Str("N/A")),
                               Str("Generating your website...")>>)))),
    Action("DELEGATE"),
    [context EXCEPT !.history = Append(context.history, <<"agent", finalSpeech>>),
                    !.onboarding_state = Str("FINALIZING")])

\* Mutant: the completion speech is spoken but not recorded in the history.
generateCompletionResponse_Unrecorded(context, t) ==
  AgentResponse(
    Id("response-complete-", t, ""), "PROCESSING", finalSpeech,
    Ui("KEY_VALUE_DISPLAY",
       Obj(Pair("items", Arr(<<OrElse(Get(context.collected_info, "business_name"),
                                      Str("N/A")),
                               Str("Generating your website...")>>)))),
    Action("DELEGATE"),
    [context EXCEPT !.goal = Str("generate_landing_page"),
                    !.onboarding_state = Str("FINALIZING")])

generateCompletionResponse(context, t) ==
  AgentResponse(
    Id("response-complete-", t, ""), "PROCESSING", finalSpeech,
    Ui("KEY_VALUE_DISPLAY",
       Obj(Pair("items", Arr(<<OrElse(Get(context.collected_info, "business_name"),
                                      Str("N/A")),
                               Str("Generating your website...")>>)))),
    Action("DELEGATE"),
    [context EXCEPT !.history = Append(context.history, <<"agent", finalSpeech>>),
                    !.goal = Str("generate_landing_page"),
                    !.onboarding_state = Str("FINALIZING")])

\* Mutant: the catch block records the apology in the history.
OnboardingFailure_Records(context, t) ==
  AgentResponse(Id("error-", t, ""), "AWAITING_INPUT", onboardingApology, Null,
                Action("REQUEST_USER_INPUT"),
                [context EXCEPT
                   !.history = Append(context.history, <<"agent", onboardingApology>>)])

\* The catch block of OnboardingAgent.execute.
OnboardingFailure(context, t) ==
  AgentResponse(Id("error-", t, ""), "AWAITING_INPUT", onboardingApology, Null,
                Action("REQUEST_USER_INPUT"), context)

\* What the try block of OnboardingAgent.execute throws on: the generation
\* call, the parse, and reading a property of a reply parsed to null.
OnboardingThrows(outcome) ==
  \/ outcome.threw
  \/ ~FenceParse(outcome.text).ok
  \/ PropThrows(FenceParse(outcome.text).value)

\* Mutant: collected_info is replaced by updated_data instead of merged.
OnboardingUpdate_Replace(prompt, context, llmResponse) ==
  [context EXCEPT
     !.history = context.history
                   \o <<<<"user", Str(prompt)>>, <<"agent", Prop(llmResponse, "speech")>>>>,
     !.collected_info = SpreadOf(Prop(llmResponse, "updated_data")),
     !.onboarding_state = Prop(llmResponse, "next_state")]

\* The context built from a parsed reply.
\* Mutant: the returned history holds the two entries of this turn only.
OnboardingUpdate_DropsHistory(prompt, context, llmResponse) ==
  [context EXCEPT
     !.history = <<<<"user", Str(prompt)>>, <<"agent", Prop(llmResponse, "speech")>>>>,
     !.collected_info =
        Merge(context.collected_info, SpreadOf(Prop(llmResponse, "updated_data"))),
     !.onboarding_state = Prop(llmResponse, "next_state")]

OnboardingUpdate(prompt, context, llmResponse) ==
  [context EXCEPT
     !.history = context.history
                   \o <<<<"user", Str(prompt)>>, <<"agent", Prop(llmResponse, "speech")>>>>,
     !.collected_info =
        Merge(context.collected_info, SpreadOf(Prop(llmResponse, "updated_data"))),
     !.onboarding_state = Prop(llmResponse, "next_state")]

\* Mutant: the FINALIZING branch is missing.
OnboardingExecute_NoFinalize(prompt, context, outcome, t) ==
  IF OnboardingThrows(outcome)
  THEN OnboardingFailure(context, t)
  ELSE LET llmResponse == FenceParse(outcome.text).value
       IN AgentResponse(Id("response-", t, ""), "AWAITING_INPUT",
                        Prop(llmResponse, "speech"), Prop(llmResponse, "ui"),
                        Action("REQUEST_USER_INPUT"),
                        OnboardingUpdate(prompt, context, llmResponse))

\* OnboardingAgent.execute for a context that is not null.
OnboardingExecute(prompt, context, outcome, t) ==
  IF OnboardingThrows(outcome)
  THEN OnboardingFailure(context, t)
  ELSE LET llmResponse == FenceParse(outcome.text).value
           updatedContext == OnboardingUpdate(prompt, context, llmResponse)
       IN IF Prop(llmResponse, "next_state") = Str("FINALIZING")
          THEN generateCompletionResponse(updatedContext, t)
          ELSE AgentResponse(Id("response-", t, ""), "AWAITING_INPUT",
                             Prop(llmResponse, "speech"), Prop(llmResponse, "ui"),
                             Action("REQUEST_USER_INPUT"), updatedContext)

\* ------------------------------------------------------ CodeGenerationAgent
codegenSpeech == Str("Voila! ... Here is the live preview!")
codegenApology == Str("I'm so sorry, my creative circuits got tangled ...")

\* The process-wide cache of baseline CSS properties, and the set a
\* successful load of the dataset yields.
CacheEmpty == [loaded |-> FALSE, props |-> {}]
Cached(props) == [loaded |-> TRUE, props |-> props]
BaselineProperties == {"color", "display"}
LoadOutcomes == {"ok", "fail"}

\* Mutant: a failed load returns (and caches) what was gathered before the
\* failure.
getBaselineCssProperties_Partial(cache, load) ==
  IF cache.loaded
  THEN [cache |-> cache, props |-> cache.props, read |-> FALSE]
  ELSE IF load = "ok"
       THEN [cache |-> Cached(BaselineProperties), props |-> BaselineProperties,
             read |-> TRUE]
       ELSE [cache |-> Cached({"color"}), props |-> {"color"}, read |-> TRUE]

\* Mutant: the cache is not consulted; every call reads the dataset.
getBaselineCssProperties_NoCheck(cache, load) ==
  IF load = "ok"
  THEN [cache |-> Cached(BaselineProperties), props |-> BaselineProperties,
        read |-> TRUE]
  ELSE [cache |-> CacheEmpty, props |-> {}, read |-> TRUE]

\* getBaselineCssProperties: [cache, props, read] after the call, given
\* what the read of the dataset does when the cache is empty; read tells
\* whether the dataset was read.
\* Mutant: the catch block caches the empty set it returns.
getBaselineCssProperties_CachesFailure(cache, load) ==
  IF cache.loaded
  THEN [cache |-> cache, props |-> cache.props, read |-> FALSE]
  ELSE IF load = "ok"
       THEN [cache |-> Cached(BaselineProperties), props |-> BaselineProperties,
             read |-> TRUE]
       ELSE [cache |-> Cached({}), props |-> {}, read |-> TRUE]

getBaselineCssProperties(cache, load) ==
  IF cache.loaded
  THEN [cache |-> cache, props |-> cache.props, read |-> FALSE]
  ELSE IF load = "ok"
       THEN [cache |-> Cached(BaselineProperties), props |-> BaselineProperties,
             read |-> TRUE]
       ELSE [cache |-> cache, props |-> {}, read |-> TRUE]

\* createSystemPrompt calls brief.key_features.join and brief.brand_colors.join
\* when the value is truthy: a TypeError unless it is an array.
CodegenPromptThrows(brief) ==
  \E k \in {"key_features", "brand_colors"} :
    Truthy(Get(brief, k)) /\ Get(brief, k).type # "array"

\* if (!generatedCode.html || !generatedCode.css || !generatedCode.js) throw
CodegenValid(generatedCode) ==
  /\ Truthy(Prop(generatedCode, "html"))
  /\ Truthy(Prop(generatedCode, "css"))
  /\ Truthy(Prop(generatedCode, "js"))

\* Whether the agent reaches its generation call.
CodegenCalls(context) == ~CodegenPromptThrows(context.collected_info)

CodegenThrows(context, outcome) ==
  \/ CodegenPromptThrows(context.collected_info)
  \/ outcome.threw
  \/ ~FenceParse(outcome.text).ok
  \/ PropThrows(FenceParse(outcome.text).value)
  \/ ~CodegenValid(FenceParse(outcome.text).value)

\* Mutant: a falsy js is padded with the empty string in the payload.
CodegenSuccess_PadsJs(context, generatedCode, t) ==
  AgentResponse(
    Id("response-codegen-", t, ""), "COMPLETE", codegenSpeech,
    Ui("KEY_VALUE_DISPLAY",
       Obj(Pair("items",
                Arr(<<OrElse(Get(context.collected_info, "business_name"), Str("N/A")),
                      OrElse(Get(context.collected_info, "style_preference"), Str("N/A")),
                      Str("Live Preview Ready")>>)))),
    ActionWith("GENERATION_COMPLETE",
               Obj(Code(Prop(generatedCode, "html"), Prop(generatedCode, "css"),
                        Str("")))),
    [context EXCEPT !.goal = Str("completed")])

\* Mutant: the returned context records the time of the generation.
CodegenSuccess_Stamped(context, generatedCode, t) ==
  AgentResponse(
    Id("response-codegen-", t, ""), "COMPLETE", codegenSpeech,
    Ui("KEY_VALUE_DISPLAY",
       Obj(Pair("items",
                Arr(<<OrElse(Get(context.collected_info, "business_name"), Str("N/A")),
                      OrElse(Get(context.collected_info, "style_preference"), Str("N/A")),
                      Str("Live Preview Ready")>>)))),
    ActionWith("GENERATION_COMPLETE",
               Obj(Code(Prop(generatedCode, "html"), Prop(generatedCode, "css"),
                        Prop(generatedCode, "js")))),
    [context EXCEPT
       !.goal = Str("completed"),
       !.collected_info = Merge(@, Pair("generated_at", Id("at", t, "")))])

CodegenSuccess(context, generatedCode, t) ==
  AgentResponse(
    Id("response-codegen-", t, ""), "COMPLETE", codegenSpeech,
    Ui("KEY_VALUE_DISPLAY",
       Obj(Pair("items",
                Arr(<<OrElse(Get(context.collected_info, "business_name"), Str("N/A")),
                      OrElse(Get(context.collected_info, "style_preference"), Str("N/A")),
                      Str("Live Preview Ready")>>)))),
    ActionWith("GENERATION_COMPLETE",
               Obj(Code(Prop(generatedCode, "html"), Prop(generatedCode, "css"),
                        Prop(generatedCode, "js")))),
    [context EXCEPT !.goal = Str("completed")])

\* Mutant: there is no catch block; the exception reaches the router.
CodegenFailure_Escapes(context, t) ==
  InternalError("AI response was missing one or more required code keys (html, css, js).")

\* Mutant: the catch block does not reset the goal.
CodegenFailure_KeepGoal(context, t) ==
  AgentResponse(
    Id("error-codegen-", t, ""), "ERROR", codegenApology,
    Ui("BUTTON_GROUP",
       Obj(Pair("buttons",
                Arr(<<Obj(Merge(Pair("text", Str("Retry Generation")),
                                Pair("payload", Str("retry_generation"))))>>)))),
    Null,
    context)

CodegenFailure(context, t) ==
  AgentResponse(
    Id("error-codegen-", t, ""), "ERROR", codegenApology,
    Ui("BUTTON_GROUP",
       Obj(Pair("buttons",
                Arr(<<Obj(Merge(Pair("text", Str("Retry Generation")),
                                Pair("payload", Str("retry_generation"))))>>)))),
    Null,
    [context EXCEPT !.goal = Str("onboard_user")])

\* CodeGenerationAgent.execute.
CodegenExecute(context, outcome, t) ==
  IF CodegenThrows(context, outcome)
  THEN CodegenFailure(context, t)
  ELSE CodegenSuccess(context, FenceParse(outcome.text).value, t)

\* ------------------------------------------------------------- EditingAgent
confirmationSpeech == Str("Okay, I've applied that change. ...")
userFacingErrorSpeech == Str("I seem to have run into a snag trying to make that edit. ...")

\* Mutant: the log lines before the try block read nothing of currentCode.
EditingEscapes_Never(currentCode) == FALSE

\* The log lines before the try block read currentCode.html.length,
\* currentCode.css.length and currentCode.js.length: a TypeError, outside
\* the try, when one of the three is undefined or null.
EditingEscapes(currentCode) ==
  \E k \in {"html", "css", "js"} : PropThrows(Prop(currentCode, k))

\* Mutant: the three fields are tested for truthiness, as in
\* CodeGenerationAgent.
EditingValid_Truthy(modifiedCode) ==
  /\ Truthy(modifiedCode)
  /\ Truthy(Prop(modifiedCode, "html"))
  /\ Truthy(Prop(modifiedCode, "css"))
  /\ Truthy(Prop(modifiedCode, "js"))

\* if (!modifiedCode || typeof modifiedCode.html !== 'string' || ...) throw
EditingValid(modifiedCode) ==
  /\ Truthy(modifiedCode)
  /\ IsString(Prop(modifiedCode, "html"))
  /\ IsString(Prop(modifiedCode, "css"))
  /\ IsString(Prop(modifiedCode, "js"))

EditingThrows(outcome) ==
  \/ outcome.threw
  \/ ~BraceParse(outcome.text).ok
  \/ ~EditingValid(BraceParse(outcome.text).value)

\* Mutant: the success path starts the brief over.
EditingSuccess_ClearsInfo(prompt, context, modifiedCode, t, r) ==
  AgentResponse(
    Id("response-edit-", t, r), "COMPLETE", confirmationSpeech, Null,
    ActionWith("GENERATION_COMPLETE",
               Obj(Code(Prop(modifiedCode, "html"), Prop(modifiedCode, "css"),
                        Prop(modifiedCode, "js")))),
    [context EXCEPT
       !.history = context.history
                     \o <<<<"user", Str(prompt)>>, <<"agent", confirmationSpeech>>>>,
       !.collected_info = EmptyObject,
       !.goal = Str("edit_code")])

EditingSuccess(prompt, context, modifiedCode, t, r) ==
  AgentResponse(
    Id("response-edit-", t, r), "COMPLETE", confirmationSpeech, Null,
    ActionWith("GENERATION_COMPLETE",
               Obj(Code(Prop(modifiedCode, "html"), Prop(modifiedCode, "css"),
                        Prop(modifiedCode, "js")))),
    [context EXCEPT
       !.history = context.history
                     \o <<<<"user", Str(prompt)>>, <<"agent", confirmationSpeech>>>>,
       !.goal = Str("edit_code")])

\* Mutant: the catch block returns the incoming context untouched, as
\* OnboardingAgent does.
EditingFailure_NoRecord(prompt, context, t, r) ==
  AgentResponse(
    Id("error-edit-", t, r), "AWAITING_INPUT", userFacingErrorSpeech, Null, Null,
    context)

\* Mutant: the catch block closes the conversation.
EditingFailure_Completes(prompt, context, t, r) ==
  AgentResponse(
    Id("error-edit-", t, r), "AWAITING_INPUT", userFacingErrorSpeech, Null, Null,
    [context EXCEPT
       !.history = context.history
                     \o <<<<"user", Str(prompt)>>, <<"agent", userFacingErrorSpeech>>>>,
       !.goal = Str("completed")])

EditingFailure(prompt, context, t, r) ==
  AgentResponse(
    Id("error-edit-", t, r), "AWAITING_INPUT", userFacingErrorSpeech, Null, Null,
    [context EXCEPT
       !.history = context.history
                     \o <<<<"user", Str(prompt)>>, <<"agent", userFacingErrorSpeech>>>>])

\* EditingAgent.execute once the log lines before the try block have run.
EditingExecute(prompt, context, outcome, t, r) ==
  IF EditingThrows(outcome)
  THEN EditingFailure(prompt, context, t, r)
  ELSE EditingSuccess(prompt, context, BraceParse(outcome.text).value, t, r)

\* ------------------------------------------------------------------- router
\* const currentGoal = context?.goal
CurrentGoal(context) == IF context = Null THEN Undefined ELSE context.goal

\* Mutant: an unrecognized goal throws instead of falling to the default.
Dispatch_FailClosed(context, generatedCode) ==
  CASE CurrentGoal(context) = Str("edit_code") ->
         IF ~Truthy(generatedCode) THEN "MissingArtifact" ELSE "EditingAgent"
    [] CurrentGoal(context) = Str("generate_landing_page") -> "CodeGenerationAgent"
    [] CurrentGoal(context) \in {Undefined, Null, Str("onboard_user")} -> "OnboardingAgent"
    [] OTHER -> "MissingArtifact"

\* Mutant: the check of generatedCode is missing.
Dispatch_NoArtifactCheck(context, generatedCode) ==
  CASE CurrentGoal(context) = Str("edit_code") -> "EditingAgent"
    [] CurrentGoal(context) = Str("generate_landing_page") -> "CodeGenerationAgent"
    [] OTHER -> "OnboardingAgent"

\* The switch of POST: the branch a request takes.
Dispatch(context, generatedCode) ==
  CASE CurrentGoal(context) = Str("edit_code") ->
         IF ~Truthy(generatedCode) THEN "MissingArtifact" ELSE "EditingAgent"
    [] CurrentGoal(context) = Str("generate_landing_page") -> "CodeGenerationAgent"
    [] OTHER -> "OnboardingAgent"

\* ------------------------------------------------- generation calls of a turn
\* Mutant: a failed generation call is issued a second time.
OnboardingCalls_Retry(context) == IF context = Null THEN 0 ELSE 2

\* OnboardingAgent.execute: none when the context is null (the early return
\* of initiateConversation), else the one await of generateContent.
OnboardingCalls(context) == IF context = Null THEN 0 ELSE 1

\* EditingAgent.execute: the one await of generateContent, unless the log
\* lines before the try block throw.
EditingCalls(currentCode) == IF EditingEscapes(currentCode) THEN 0 ELSE 1

\* -------------------------------------------------------------------- state
VARIABLES
  req,               \* the request body of the turn: prompt, context, generatedCode
  phase,             \* "pending": the request is sent; "replied": it is answered
  resp,              \* the reply of the turn
  agent,             \* the agent the router invoked in the turn, or "none"
  genCalls,          \* generateContent calls made in the turn
  reply,             \* what the generation call of the turn did
  baselineCssCache,  \* the module-level cache of CodeGenerationAgent.ts
  now,               \* the last reading of Date.now()
  log,               \* one entry per answered turn: the agent, whether it
                     \* finalized, the history shown to the model, and the
                     \* status and id of its response
  loader,            \* the dataset reads of the process so far, and what the
                     \* last call of getBaselineCssProperties did and returned
  callers,           \* the concurrent calls of getBaselineCssProperties
  prev,              \* the outcome and the reply of the turn before, when the
                     \* caller has sent the same request again
  client             \* the page component: its React state, its requests in
                     \* flight and its voice recorders

vars ==
  <<req, phase, resp, agent, genCalls, reply, baselineCssCache, now, log,
    loader, callers, prev, client>>

NoPrev == [sent |-> FALSE, outcome |-> NoOutcome, response |-> NoResponse]

\* No call of getBaselineCssProperties in this turn yet; a populated cache
\* was read from the dataset once.
NoLoad(cache) ==
  [reads |-> IF cache.loaded THEN 1 ELSE 0, read |-> FALSE, failed |-> FALSE,
   props |-> {}]

\* The loader after one sequential call of getBaselineCssProperties.
LoaderAfter(cache, load) ==
  [reads |-> IF cache.loaded THEN loader.reads ELSE loader.reads + 1,
   read |-> getBaselineCssProperties(cache, load).read,
   failed |-> ~cache.loaded /\ load = "fail",
   props |-> getBaselineCssProperties(cache, load).props]

Callers == 1..MaxCallers
Waiting == [pc |-> "idle", local |-> {}, got |-> {}, failed |-> FALSE]

Request(p, c, g) == [prompt |-> p, context |-> c, generatedCode |-> g]
Requests == {Request(p, c, g) : p \in Prompts, c \in Contexts, g \in Artifacts}

\* Date.now() at the time of a turn: the clock has advanced or it has not.
Readings == {t \in Clock : t = now \/ t = now + 1}

\* ------------------------------------------------------------- the client
\* The page component of page.tsx: its React state (context, generatedCode,
\* activeResponse, isLoading, listeningStatus), the fetches of /api/airlane
\* it has in flight, and the MediaRecorders it has created. Every render
\* defines handleAgentCommunication and handleVoiceInteraction anew, closing
\* over the context and generatedCode of that render; a callback registered
\* in one render keeps that render's values.

\* Requests the page sends in one run, the first one on mount included.
MaxSent == 4
\* MediaRecorders the page creates in one run.
MaxRecordings == 1

\* { ...currentContext!, goal: 'edit_code' }
EditContext(currentContext) ==
  IF currentContext = Null
  THEN [goal |-> Str("edit_code")]
  ELSE [currentContext EXCEPT !.goal = Str("edit_code")]

\* apiRequestBody: isEditMode = !!generatedCode decides its shape; outside
\* edit mode the body has no generatedCode key.
RequestBody(prompt, currentContext, generatedCode) ==
  IF Truthy(generatedCode)
  THEN Request(prompt, EditContext(currentContext), generatedCode)
  ELSE Request(prompt, currentContext, Undefined)

\* The placeholder shown while a request outside edit mode is pending.
LoadingResponse(context, t) ==
  AgentResponse(Id("loading-", t, ""), "PROCESSING", Null,
                Obj(Pair("type", Str("LOADING"))), Null,
                IF context = Null
                THEN Context(<<>>, EmptyObject, Str("onboard_user"), Undefined)
                ELSE context)

\* The response shown by the catch block: its id is the fixed string
\* 'error_state'.
connectionIssue == Str("My apologies, I've encountered a connection issue. Please try again.")
ErrorResponse(context) ==
  AgentResponse(Id("error_state", 0, ""), "ERROR", connectionIssue, Null, Null,
                IF context = Null
                THEN Context(<<>>, EmptyObject, Null, Undefined)
                ELSE context)

\* RenderUINode: the ui types that render a control calling onSubmit.
InputTypes ==
  {Str("TEXT_INPUT"), Str("TEXT_AREA_INPUT"), Str("BUTTON_GROUP"),
   Str("MULTI_SELECT"), Str("COLOR_PICKER")}
Affordance(response) ==
  /\ response.kind = "AgentResponse"
  /\ Truthy(response.ui)
  /\ Prop(response.ui, "type") \in InputTypes

\* A fetch of /api/airlane in flight: its body, and the context of the
\* render whose handleAgentCommunication sent it (the catch block shows it).
Sent(n, body, context) == [seq |-> n, body |-> body, context |-> context]

\* The page once the mount effect has called handleAgentCommunication('').
Mounted ==
  [context |-> Null, generatedCode |-> Null,
   activeResponse |-> LoadingResponse(Null, 0),
   isLoading |-> TRUE, listeningStatus |-> "idle",
   inflight |-> {Sent(1, RequestBody("", Null, Null), Null)},
   sent |-> 1, handling |-> 0,
   recorders |-> <<>>, current |-> 0]

\* The value of client in the specifications that have no page.
NoClient == [Mounted EXCEPT !.inflight = {}, !.sent = 0, !.isLoading = FALSE]

\* handleAgentCommunication(prompt) up to its await, called from a render
\* whose state was (context, generatedCode): isLoading is set, the body is
\* built from that render's values, the placeholder is shown outside edit
\* mode, and the request is sent. The placeholder's id reads the clock
\* without advancing it.
handleAgentCommunication(c, prompt, context, generatedCode) ==
  [c EXCEPT
     !.isLoading = TRUE,
     !.activeResponse =
        IF Truthy(generatedCode) THEN @ ELSE LoadingResponse(context, now),
     !.inflight =
        @ \cup {Sent(c.sent + 1, RequestBody(prompt, context, generatedCode), context)},
     !.sent = @ + 1]

\* Mutant: a DELEGATE response makes the page send the returned context
\* back at once.
ResponseOk_AutoDelegate(c, data) ==
  LET stored ==
        [c EXCEPT
           !.activeResponse = data,
           !.context = data.context,
           !.generatedCode =
              IF Prop(data.action, "type") = Str("GENERATION_COMPLETE")
              THEN Prop(data.action, "payload") ELSE @,
           !.isLoading = FALSE]
  IN IF Prop(data.action, "type") = Str("DELEGATE")
     THEN handleAgentCommunication(stored, "", data.context, stored.generatedCode)
     ELSE stored

\* The continuation of handleAgentCommunication after an OK response: the
\* response is shown, its context stored, the payload of a
\* GENERATION_COMPLETE action stored as the artifact; finally isLoading is
\* reset.
ResponseOk(c, data) ==
  [c EXCEPT
     !.activeResponse = data,
     !.context = data.context,
     !.generatedCode =
        IF Prop(data.action, "type") = Str("GENERATION_COMPLETE")
        THEN Prop(data.action, "payload") ELSE @,
     !.isLoading = FALSE]

\* Mutant: the catch block forgets the conversation.
ResponseFailed_Forgets(c, context) ==
  [c EXCEPT !.activeResponse = ErrorResponse(context), !.context = Null,
            !.isLoading = FALSE]

\* The catch block and the finally block of handleAgentCommunication: the
\* response was not OK, or fetch threw.
ResponseFailed(c, context) ==
  [c EXCEPT !.activeResponse = ErrorResponse(context), !.isLoading = FALSE]

\* A MediaRecorder and the render whose handleVoiceInteraction created its
\* onstop callback.
Recorder(stage, context, generatedCode) ==
  [stage |-> stage, context |-> context, generatedCode |-> generatedCode]
\* A recorder whose callbacks have run.
Discarded == Recorder("done", Null, Null)

\* history.slice(-6): the number of entries of the updated history that the
\* onboarding system prompt embeds.
RecentEntries == 6

\* A mutant of createSystemPromptHistory: the whole history is embedded.
createSystemPromptHistory_Whole(history) == history

\* The history embedded in the onboarding system prompt, given the updated
\* history [...context.history, ['user', prompt]]: its last six entries, or
\* all of them when there are fewer.
createSystemPromptHistory(history) ==
  SubSeq(history,
         IF Len(history) > RecentEntries THEN Len(history) - RecentEntries + 1 ELSE 1,
         Len(history))

\* What a turn leaves behind: the agent invoked, whether the onboarding reply
\* finalized, the history its system prompt embedded, and the status and id
\* of the response (the router's error payload has neither).
Entry(a, f, r) ==
  [agent |-> a, finalizing |-> f,
   shown |-> IF a = "OnboardingAgent" /\ req.context # Null
             THEN createSystemPromptHistory(
                    req.context.history \o <<<<"user", Str(req.prompt)>>>>)
             ELSE <<>>,
   status |-> IF r.kind = "AgentResponse" THEN r.status ELSE "none",
   id |-> IF r.kind = "AgentResponse" THEN r.id ELSE Id("none", now, "")]

\* Whether an onboarding turn's reply parses to an object with
\* next_state = FINALIZING.
Finalizes(outcome) ==
  /\ ~OnboardingThrows(outcome)
  /\ Prop(FenceParse(outcome.text).value, "next_state") = Str("FINALIZING")

Answer(r, a, calls, outcome, t, f) ==
  /\ resp' = r
  /\ agent' = a
  /\ genCalls' = calls
  /\ reply' = outcome
  /\ now' = t
  /\ log' = Append(log, Entry(a, f, r))
  /\ phase' = "replied"
  /\ UNCHANGED <<req, callers, prev, client>>

\* POST, default branch, context null: turn 0.
PostTurn0 ==
  /\ phase = "pending"
  /\ Dispatch(req.context, req.generatedCode) = "OnboardingAgent"
  /\ req.context = Null
  /\ \E t \in Readings :
       Answer(initiateConversation(t), "OnboardingAgent",
              OnboardingCalls(req.context), NoOutcome, t, FALSE)
  /\ UNCHANGED <<baselineCssCache, loader>>

\* POST, default branch, context not null.
PostOnboard ==
  /\ phase = "pending"
  /\ Dispatch(req.context, req.generatedCode) = "OnboardingAgent"
  /\ req.context # Null
  /\ \E outcome \in Outcomes, t \in Readings :
       Answer(OnboardingExecute(req.prompt, req.context, outcome, t),
              "OnboardingAgent", OnboardingCalls(req.context), outcome, t,
              Finalizes(outcome))
  /\ UNCHANGED <<baselineCssCache, loader>>

\* POST, case 'generate_landing_page'.
PostGenerate ==
  /\ phase = "pending"
  /\ Dispatch(req.context, req.generatedCode) = "CodeGenerationAgent"
  /\ \E load \in LoadOutcomes, outcome \in Outcomes, t \in Readings :
       LET baseline == getBaselineCssProperties(baselineCssCache, load)
           called == CodegenCalls(req.context)
           o == IF called THEN outcome ELSE NoOutcome
       IN /\ baselineCssCache' = baseline.cache
          /\ loader' = LoaderAfter(baselineCssCache, load)
          /\ Answer(CodegenExecute(req.context, o, t), "CodeGenerationAgent",
                    IF called THEN 1 ELSE 0, o, t, FALSE)

\* POST, case 'edit_code', generatedCode given.
PostEdit ==
  /\ phase = "pending"
  /\ Dispatch(req.context, req.generatedCode) = "EditingAgent"
  /\ \E outcome \in Outcomes, t \in Readings, r \in Rands :
       IF EditingEscapes(req.generatedCode)
       THEN Answer(InternalError("TypeError"), "EditingAgent",
                   EditingCalls(req.generatedCode), NoOutcome, t, FALSE)
       ELSE Answer(EditingExecute(req.prompt, req.context, outcome, t, r),
                   "EditingAgent", EditingCalls(req.generatedCode), outcome, t, FALSE)
  /\ UNCHANGED <<baselineCssCache, loader>>

\* POST, case 'edit_code', generatedCode missing: the throw and the catch.
PostMissingArtifact ==
  /\ phase = "pending"
  /\ Dispatch(req.context, req.generatedCode) = "MissingArtifact"
  /\ Answer(InternalError("Cannot edit code when 'generatedCode' is not provided."),
            "none", 0, NoOutcome, now, FALSE)
  /\ UNCHANGED <<baselineCssCache, loader>>

\* The prompts of the follow-up turns of a conversation. No branch of the
\* router or of an agent reads the prompt: it is only copied into the history
\* and the system prompt.
FollowUps == {"p2"}

\* The caller of handleTurn that stores the returned context and sends it
\* back verbatim with the next prompt. The new request is pending: nothing
\* of its turn has happened yet.
Echo ==
  /\ phase = "replied"
  /\ resp.kind = "AgentResponse"
  /\ Len(log) < MaxTurns
  /\ \E p \in FollowUps :
       req' = Request(p, resp.context, req.generatedCode)
  /\ phase' = "pending"
  /\ resp' = NoResponse
  /\ agent' = "none"
  /\ genCalls' = 0
  /\ reply' = NoOutcome
  /\ UNCHANGED <<baselineCssCache, now, log, loader, callers, prev, client>>

Fresh ==
  /\ phase = "pending"
  /\ resp = NoResponse
  /\ agent = "none"
  /\ genCalls = 0
  /\ reply = NoOutcome
  /\ now = 0
  /\ log = <<>>
  /\ loader = NoLoad(baselineCssCache)
  /\ callers = [c \in Callers |-> Waiting]
  /\ prev = NoPrev
  /\ client = NoClient

\* Mutant: a turn may stay unresolved although no generation call is pending.
ReachesCall_Always(request) == TRUE

\* Whether the turn of a request gets as far as awaiting generateContent.
ReachesCall(request) ==
  LET d == Dispatch(request.context, request.generatedCode) IN
  CASE d = "OnboardingAgent" -> OnboardingCalls(request.context) = 1
    [] d = "CodeGenerationAgent" -> CodegenCalls(request.context)
    [] d = "EditingAgent" -> EditingCalls(request.generatedCode) = 1
    [] OTHER -> FALSE

\* POST when the promise of generateContent never settles: the agent, and
\* with it the handler, stays suspended at its await; nothing is returned.
\* A code generation turn has called getBaselineCssProperties by then.
AwaitForever ==
  /\ phase = "pending"
  /\ ReachesCall(req)
  /\ phase' = "awaiting"
  /\ agent' = Dispatch(req.context, req.generatedCode)
  /\ genCalls' = 1
  /\ IF Dispatch(req.context, req.generatedCode) = "CodeGenerationAgent"
     THEN \E load \in LoadOutcomes :
            /\ baselineCssCache' =
                 getBaselineCssProperties(baselineCssCache, load).cache
            /\ loader' = LoaderAfter(baselineCssCache, load)
     ELSE UNCHANGED <<baselineCssCache, loader>>
  /\ UNCHANGED <<req, resp, reply, now, log, callers, prev, client>>

\* A request whose body is not JSON: request.json() rejects, and prompt,
\* context and generatedCode are never bound.
BadBody == Request("", Undefined, Undefined)

Unparsed ==
  /\ phase = "unparsed"
  /\ resp = NoResponse
  /\ agent = "none"
  /\ genCalls = 0
  /\ reply = NoOutcome
  /\ now = 0
  /\ log = <<>>
  /\ loader = NoLoad(baselineCssCache)
  /\ callers = [c \in Callers |-> Waiting]
  /\ prev = NoPrev
  /\ client = NoClient

\* POST, await request.json() throws: the catch.
PostBadBody ==
  /\ phase = "unparsed"
  /\ resp' = InternalError("Unexpected token in JSON")
  /\ log' = Append(log, Entry("none", FALSE, resp'))
  /\ phase' = "rejected"
  /\ UNCHANGED <<req, agent, genCalls, reply, baselineCssCache, now, loader, callers,
                 prev, client>>

\* One turn of the router on any request.
Init ==
  /\ baselineCssCache \in {CacheEmpty, Cached(BaselineProperties), Cached({})}
  /\ \/ req \in Requests /\ Fresh
     \/ req = BadBody /\ Unparsed

Next ==
  \/ PostTurn0
  \/ PostOnboard
  \/ PostGenerate
  \/ PostEdit
  \/ PostMissingArtifact
  \/ PostBadBody
  \/ AwaitForever

Spec == Init /\ [][Next]_vars

\* The handler is an async function on the event loop: a step that can be
\* taken is taken.
SpecFair == Spec /\ WF_vars(Next)

\* A conversation from a null context with a caller that echoes the context.
InitEcho ==
  /\ req \in {Request(p, Null, Undefined) : p \in Prompts}
  /\ baselineCssCache = CacheEmpty
  /\ Fresh

\* No context an agent returns to this caller carries goal edit_code (it is
\* set only by EditingAgent), so the two edit_code branches of POST are
\* never enabled here.
NextEcho ==
  \/ PostTurn0
  \/ PostOnboard
  \/ PostGenerate
  \/ Echo

SpecEcho == InitEcho /\ [][NextEcho]_vars

\* --------------------------------------------- the same request, twice
\* A caller that sends the request it has just sent a second time, to the
\* same process: prompt, context and generatedCode are those of the first
\* turn; the cache, the clock and the log are as the first turn left them.
Resend ==
  /\ phase = "replied"
  /\ ~prev.sent
  /\ prev' = [sent |-> TRUE, outcome |-> reply, response |-> resp]
  /\ phase' = "pending"
  /\ resp' = NoResponse
  /\ agent' = "none"
  /\ genCalls' = 0
  /\ reply' = NoOutcome
  /\ UNCHANGED <<req, baselineCssCache, now, log, loader, callers, client>>

\* One request for every branch of the router and of the agents.
ResendRequests ==
  {r \in Requests :
     /\ r.prompt = "p1"
     /\ r.context # Null => r.context.onboarding_state = Str("BRANDING")}

InitResend ==
  /\ req \in ResendRequests
  /\ baselineCssCache = CacheEmpty
  /\ Fresh

NextResend ==
  \/ PostTurn0
  \/ PostOnboard
  \/ PostGenerate
  \/ PostEdit
  \/ PostMissingArtifact
  \/ Resend

SpecResend == InitResend /\ [][NextResend]_vars

\* ------------------------------------------- concurrent cold-start calls
\* Code generation turns that overlap call getBaselineCssProperties
\* concurrently. A call runs without interruption up to its await of
\* fs.readFile, and again from the resumption to its return. The second
\* part is split here into the steps that fill the local set and the step
\* that assigns the cache and returns, which may interleave with other
\* callers more finely than the event loop allows.

\* Mutant: the set under construction is the cache itself.
CacheDuringBuild_Shared(cache, local) == Cached(local)

\* The module-level cache while a caller fills its local baselineProperties.
CacheDuringBuild(cache, local) == cache

\* if (baselineCssCache) return baselineCssCache; else await fs.readFile(...)
RaceCall(c) ==
  /\ callers[c].pc = "idle"
  /\ IF baselineCssCache.loaded
     THEN /\ callers' = [callers EXCEPT ![c] =
                           [@ EXCEPT !.pc = "done", !.got = baselineCssCache.props]]
          /\ UNCHANGED loader
     ELSE /\ callers' = [callers EXCEPT ![c] = [@ EXCEPT !.pc = "reading"]]
          /\ loader' = [loader EXCEPT !.reads = @ + 1, !.read = TRUE]
  /\ UNCHANGED <<req, phase, resp, agent, genCalls, reply, baselineCssCache, now, log,
                 prev, client>>

\* The read settles: JSON.parse and new Set(), or the catch and its empty set.
RaceRead(c) ==
  /\ callers[c].pc = "reading"
  /\ \E load \in LoadOutcomes :
       callers' = [callers EXCEPT ![c] =
                     IF load = "ok"
                     THEN [@ EXCEPT !.pc = "building", !.local = {}]
                     ELSE [@ EXCEPT !.pc = "done", !.got = {}, !.failed = TRUE]]
  /\ UNCHANGED <<req, phase, resp, agent, genCalls, reply, baselineCssCache, now, log,
                 loader, prev, client>>

\* baselineProperties.add(...) for one more property of the dataset.
RaceBuild(c) ==
  /\ callers[c].pc = "building"
  /\ \E prop \in BaselineProperties \ callers[c].local :
       /\ callers' = [callers EXCEPT ![c] = [@ EXCEPT !.local = @ \cup {prop}]]
       /\ baselineCssCache' =
            CacheDuringBuild(baselineCssCache, callers[c].local \cup {prop})
  /\ UNCHANGED <<req, phase, resp, agent, genCalls, reply, now, log, loader, prev, client>>

\* baselineCssCache = baselineProperties; return baselineProperties
RaceReturn(c) ==
  /\ callers[c].pc = "building"
  /\ callers[c].local = BaselineProperties
  /\ baselineCssCache' = Cached(callers[c].local)
  /\ callers' = [callers EXCEPT ![c] = [@ EXCEPT !.pc = "done", !.got = callers[c].local]]
  /\ UNCHANGED <<req, phase, resp, agent, genCalls, reply, now, log, loader, prev, client>>

InitRace ==
  /\ req = Request("p1",
                   Context(<<>>, EmptyObject, Str("generate_landing_page"),
                           Str("FINALIZING")),
                   Undefined)
  /\ baselineCssCache = CacheEmpty
  /\ Fresh

NextRace ==
  \E c \in Callers :
    \/ RaceCall(c)
    \/ RaceRead(c)
    \/ RaceBuild(c)
    \/ RaceReturn(c)

SpecRace == InitRace /\ [][NextRace]_vars

\* ------------------------------------------------- the page and the router
routerVars ==
  <<req, phase, resp, agent, genCalls, reply, baselineCssCache, now, log,
    loader, callers, prev>>

\* The prompts the page sends after mount.
Submits == FollowUps

\* NexusBar: the form of the text bar. Its input is disabled while
\* isLoading, recording or transcribing; the page's onSubmit calls
\* handleAgentCommunication(inputValue) of the current render.
SubmitBar ==
  /\ ~client.isLoading
  /\ client.listeningStatus = "idle"
  /\ client.sent < MaxSent
  /\ \E p \in Submits :
       client' = handleAgentCommunication(client, p, client.context,
                                          client.generatedCode)
  /\ UNCHANGED routerVars

\* AgentDisplay: a control rendered from the ui of the active response
\* (TextInput, ButtonGroup, ...) calls onSubmit, the handleAgentCommunication
\* of the current render. No control reads isLoading or listeningStatus.
SubmitAffordance ==
  /\ Affordance(client.activeResponse)
  /\ client.sent < MaxSent
  /\ \E p \in Submits :
       client' = handleAgentCommunication(client, p, client.context,
                                          client.generatedCode)
  /\ UNCHANGED routerVars

\* handleVoiceInteraction, listeningStatus 'recording': the current recorder
\* is stopped; its onstop callback sets listeningStatus to 'transcribing' and
\* posts the audio to /api/transcribe. The mic button is disabled while
\* isLoading.
MicStop ==
  /\ ~client.isLoading
  /\ client.listeningStatus = "recording"
  /\ client.current # 0
  /\ client.recorders[client.current].stage = "recording"
  /\ client' = [client EXCEPT !.recorders[client.current].stage = "transcribing",
                              !.listeningStatus = "transcribing"]
  /\ UNCHANGED routerVars

\* handleVoiceInteraction, any other listeningStatus: getUserMedia is
\* awaited; the handler, and the onstop callback it will register, belong to
\* the render of the click.
MicStart ==
  /\ ~client.isLoading
  /\ client.listeningStatus # "recording"
  /\ Len(client.recorders) < MaxRecordings
  /\ client' = [client EXCEPT
                  !.recorders = Append(@, Recorder("acquiring", client.context,
                                                   client.generatedCode))]
  /\ UNCHANGED routerVars

\* getUserMedia resolves: the recorder is created, stored in
\* mediaRecorderRef and started, and listeningStatus is set to 'recording'.
MicGranted ==
  /\ \E i \in 1..Len(client.recorders) :
       /\ client.recorders[i].stage = "acquiring"
       /\ client' = [client EXCEPT !.recorders[i].stage = "recording",
                                   !.current = i,
                                   !.listeningStatus = "recording"]
  /\ UNCHANGED routerVars

\* getUserMedia rejects: the catch sets listeningStatus to 'idle'.
MicDenied ==
  /\ \E i \in 1..Len(client.recorders) :
       /\ client.recorders[i].stage = "acquiring"
       /\ client' = [client EXCEPT !.recorders[i] = Discarded,
                                   !.listeningStatus = "idle"]
  /\ UNCHANGED routerVars

\* onstop, after /api/transcribe answered OK with a text: listeningStatus is
\* set to 'idle' and handleAgentCommunication(result.text) is called, the one
\* of the render that registered the callback.
Transcribed ==
  /\ client.sent < MaxSent
  /\ \E i \in 1..Len(client.recorders), p \in Submits :
       /\ client.recorders[i].stage = "transcribing"
       /\ client' =
            handleAgentCommunication(
              [client EXCEPT !.recorders[i] = Discarded,
                             !.listeningStatus = "idle"],
              p, client.recorders[i].context, client.recorders[i].generatedCode)
  /\ UNCHANGED routerVars

\* onstop, after /api/transcribe answered with an error or without a text:
\* listeningStatus is set to 'idle' and nothing is sent.
TranscriptionFailed ==
  /\ \E i \in 1..Len(client.recorders) :
       /\ client.recorders[i].stage = "transcribing"
       /\ client' = [client EXCEPT !.recorders[i] = Discarded,
                                   !.listeningStatus = "idle"]
  /\ UNCHANGED routerVars

\* A request in flight reaches the router: POST starts on its body. The log
\* of the composed system holds the turn being answered only.
Deliver ==
  /\ phase = "idle"
  /\ \E r \in client.inflight :
       /\ req' = r.body
       /\ client' = [client EXCEPT !.handling = r.seq]
  /\ phase' = "pending"
  /\ log' = <<>>
  /\ UNCHANGED <<resp, agent, genCalls, reply, baselineCssCache, now, loader,
                 callers, prev>>

\* The request the router has answered.
Handled == CHOOSE r \in client.inflight : r.seq = client.handling

\* The fetch of the answered request resolves: an AgentResponse arrives with
\* status 200 and is stored; the router's error payload arrives with status
\* 500 and response.ok is false.
Settle ==
  /\ phase = "replied"
  /\ client' =
       [(IF resp.kind = "AgentResponse"
         THEN ResponseOk(client, resp)
         ELSE ResponseFailed(client, Handled.context))
        EXCEPT !.inflight = @ \ {Handled}, !.handling = 0]
  /\ phase' = "idle"
  /\ resp' = NoResponse
  /\ agent' = "none"
  /\ genCalls' = 0
  /\ reply' = NoOutcome
  /\ UNCHANGED <<req, baselineCssCache, now, log, loader, callers, prev>>

\* The fetch of a request rejects, or resolves with a status that is not OK
\* (a response of the platform, not of POST): the catch block runs.
FetchThrows ==
  /\ \E r \in client.inflight :
       /\ r.seq # client.handling
       /\ client' = [ResponseFailed(client, r.context)
                     EXCEPT !.inflight = @ \ {r}]
  /\ UNCHANGED routerVars

\* The generation outcomes of the composed system: a throw, and the replies
\* of the shape the agent's prompt asks for.
OnboardingOutcomes == {Threw, Returned(Bare(OnbAdvance)), Returned(Bare(OnbFinal))}
CodeOutcomes == {NoOutcome, Threw, Returned(Bare(CodeFull))}

InitClient ==
  /\ req = Request("", Null, Undefined)
  /\ phase = "idle"
  /\ resp = NoResponse
  /\ agent = "none"
  /\ genCalls = 0
  /\ reply = NoOutcome
  /\ baselineCssCache = CacheEmpty
  /\ now = 0
  /\ log = <<>>
  /\ loader = NoLoad(baselineCssCache)
  /\ callers = [c \in Callers |-> Waiting]
  /\ prev = NoPrev
  /\ client = Mounted

\* The router answers the delivered request. No code of the page reads the
\* time or the random suffix of an id: the composed system takes one reading
\* of each.
RouteTurn0 == PostTurn0 /\ now' = now
RouteOnboard == PostOnboard /\ reply' \in OnboardingOutcomes /\ now' = now
RouteGenerate == PostGenerate /\ reply' \in CodeOutcomes /\ now' = now
RouteEdit ==
  /\ PostEdit
  /\ reply' \in CodeOutcomes
  /\ now' = now
  /\ resp'.kind = "AgentResponse" => resp'.id.rand = "r1"

NextClient ==
  \/ SubmitBar
  \/ SubmitAffordance
  \/ MicStop
  \/ MicStart
  \/ MicGranted
  \/ MicDenied
  \/ Transcribed
  \/ TranscriptionFailed
  \/ Deliver
  \/ RouteTurn0
  \/ RouteOnboard
  \/ RouteGenerate
  \/ RouteEdit
  \/ Settle
  \/ FetchThrows

SpecClient == InitClient /\ [][NextClient]_vars

\* ------------------------------------------------------------------- claims
Replied == phase = "replied"
ReqGoal == IF req.context = Null THEN Undefined ELSE req.context.goal
ArtifactGiven == req.generatedCode \notin {Undefined, Null}
IsAgentResponse == resp.kind = "AgentResponse"
\* The generation call of the turn returned a text that parses to a value
\* other than null, for the agents that strip fences; ReplyValue is that
\* value.
ReplyParsed ==
  /\ genCalls = 1
  /\ ~reply.threw
  /\ FenceParse(reply.text).ok
  /\ FenceParse(reply.text).value # Null
ReplyValue == FenceParse(reply.text).value
ReplyFinalizing == ReplyParsed /\ Prop(ReplyValue, "next_state") = Str("FINALIZING")

\* C1: every answered turn has invoked the one agent the routing table names
\* for its goal: edit_code with an artifact -> EditingAgent;
\* generate_landing_page -> CodeGenerationAgent; any other goal, null,
\* absent or unrecognized, or a null context -> OnboardingAgent, answered
\* with an AgentResponse and never with the router's error.
C1_RoutingTable ==
  Replied =>
    /\ (ReqGoal = Str("edit_code") /\ ArtifactGiven) => agent = "EditingAgent"
    /\ ReqGoal = Str("generate_landing_page") => agent = "CodeGenerationAgent"
    /\ ReqGoal \notin {Str("edit_code"), Str("generate_landing_page")} =>
         agent = "OnboardingAgent" /\ IsAgentResponse
    /\ Len(log) = 1 /\ log[1].agent = agent

C1_Witness ==
  /\ Replied
  /\ ReqGoal = Str("something_else")
  /\ agent = "OnboardingAgent"
  /\ IsAgentResponse

\* C2: a turn with goal edit_code and no artifact is answered with the
\* router's 500 payload, with no agent invoked and no generation call; and
\* EditingAgent is only ever invoked on a request that carries an artifact.
C2_MissingArtifact ==
  Replied =>
    /\ (ReqGoal = Str("edit_code") /\ ~ArtifactGiven) =>
         /\ resp.kind = "InternalError"
         /\ resp.httpStatus = "500"
         /\ agent = "none"
         /\ genCalls = 0
    /\ agent = "EditingAgent" => ArtifactGiven

C2_Witness ==
  /\ Replied
  /\ ReqGoal = Str("edit_code")
  /\ req.generatedCode = Null
  /\ resp.kind = "InternalError"

\* C3: a turn with a null context makes no generation call and returns
\* AWAITING_INPUT, a TEXT_INPUT, REQUEST_USER_INPUT and the fixed first
\* context (GREETING, onboard_user, nothing collected, a history of the
\* greeting alone), whatever the prompt.
C3_TurnZero ==
  (Replied /\ req.context = Null) =>
    /\ agent = "OnboardingAgent"
    /\ genCalls = 0
    /\ IsAgentResponse
    /\ resp.status = "AWAITING_INPUT"
    /\ Prop(resp.ui, "type") = Str("TEXT_INPUT")
    /\ resp.action = Action("REQUEST_USER_INPUT")
    /\ resp.speech = welcomeSpeech
    /\ resp.context.onboarding_state = Str("GREETING")
    /\ resp.context.goal = Str("onboard_user")
    /\ DOMAIN resp.context.collected_info = {}
    /\ resp.context.history = <<<<"agent", welcomeSpeech>>>>

C3_Witness ==
  /\ Replied
  /\ req.context = Null
  /\ req.prompt = "p2"
  /\ resp.context.history = <<<<"agent", welcomeSpeech>>>>

\* C4: an onboarding turn whose reply parses to an object with
\* next_state = FINALIZING returns PROCESSING, DELEGATE, goal
\* generate_landing_page and onboarding_state FINALIZING.
C4_FinalizeHandoff ==
  (Replied /\ agent = "OnboardingAgent" /\ ReplyFinalizing) =>
    /\ IsAgentResponse
    /\ resp.status = "PROCESSING"
    /\ Prop(resp.action, "type") = Str("DELEGATE")
    /\ resp.context.goal = Str("generate_landing_page")
    /\ resp.context.onboarding_state = Str("FINALIZING")

C4_Witness ==
  /\ Replied
  /\ agent = "OnboardingAgent"
  /\ ReplyFinalizing
  /\ req.context.onboarding_state = Str("GREETING")
  /\ req.context.goal = Str("completed")
  /\ resp.status = "PROCESSING"

\* C5: with an echoing caller, from a null context, CodeGenerationAgent
\* handles a turn exactly when the turn before was an onboarding turn whose
\* reply had next_state = FINALIZING; each turn invokes one agent.
C5_SoleHandoff ==
  \A i \in 1..Len(log) :
    log[i].agent = "CodeGenerationAgent" <=>
      (i > 1 /\ log[i - 1].agent = "OnboardingAgent" /\ log[i - 1].finalizing)

C5_Witness ==
  /\ Len(log) = 4
  /\ log[2].finalizing
  /\ log[3].agent = "CodeGenerationAgent"
  /\ log[4].agent = "OnboardingAgent"
  /\ resp.status = "PROCESSING"

\* C6: an onboarding turn on a context that is not null whose generation call
\* throws, or whose reply does not parse, returns AWAITING_INPUT, no ui, the
\* apology, and the incoming context unchanged.
C6_OnboardingFailure ==
  (/\ Replied
   /\ agent = "OnboardingAgent"
   /\ genCalls = 1
   /\ (reply.threw \/ ~FenceParse(reply.text).ok)) =>
    /\ IsAgentResponse
    /\ resp.status = "AWAITING_INPUT"
    /\ resp.ui = Null
    /\ resp.speech = onboardingApology
    /\ resp.context = req.context

C6_Witness ==
  /\ Replied
  /\ agent = "OnboardingAgent"
  /\ genCalls = 1
  /\ ~reply.threw
  /\ ~FenceParse(reply.text).ok
  /\ Len(req.context.history) = 3
  /\ DOMAIN req.context.collected_info # {}
  /\ resp.context = req.context

\* C7: an onboarding turn whose reply parses to an object with a next_state
\* other than FINALIZING returns AWAITING_INPUT, REQUEST_USER_INPUT, the
\* reply's speech and ui, and collected_info merged: the keys of updated_data
\* with their new values, every other key as it was, none removed.
C7_OnboardingMerge ==
  (Replied /\ agent = "OnboardingAgent" /\ ReplyParsed /\ ~ReplyFinalizing) =>
    LET old == req.context.collected_info
        upd == SpreadOf(Prop(ReplyValue, "updated_data"))
        new == resp.context.collected_info
    IN /\ IsAgentResponse
       /\ resp.status = "AWAITING_INPUT"
       /\ resp.action = Action("REQUEST_USER_INPUT")
       /\ resp.speech = Prop(ReplyValue, "speech")
       /\ resp.ui = Prop(ReplyValue, "ui")
       /\ DOMAIN new = (DOMAIN old) \cup (DOMAIN upd)
       /\ \A k \in DOMAIN upd : new[k] = upd[k]
       /\ \A k \in (DOMAIN old) \ (DOMAIN upd) : new[k] = old[k]

C7_Witness ==
  /\ Replied
  /\ agent = "OnboardingAgent"
  /\ ReplyParsed
  /\ ~ReplyFinalizing
  /\ Get(req.context.collected_info, "business_name") = Str("Old")
  /\ Get(req.context.collected_info, "key_features") = Str("fast")
  /\ Get(resp.context.collected_info, "business_name") = Str("Acme")
  /\ Get(resp.context.collected_info, "key_features") = Str("fast")

\* The reply of a code generation turn parsed to an object whose html, css
\* and js all pass the agent's test.
CodegenAccepted ==
  /\ ReplyParsed
  /\ Truthy(Prop(ReplyValue, "html"))
  /\ Truthy(Prop(ReplyValue, "css"))
  /\ Truthy(Prop(ReplyValue, "js"))

\* C8: a code generation turn whose reply passes the agent's validation
\* returns COMPLETE and GENERATION_COMPLETE with the reply's html, css and
\* js as payload, and the incoming context with goal = completed.
C8_CodegenSuccess ==
  (Replied /\ agent = "CodeGenerationAgent" /\ CodegenAccepted) =>
    /\ IsAgentResponse
    /\ resp.status = "COMPLETE"
    /\ Prop(resp.action, "type") = Str("GENERATION_COMPLETE")
    /\ Prop(Prop(resp.action, "payload"), "html") = Prop(ReplyValue, "html")
    /\ Prop(Prop(resp.action, "payload"), "css") = Prop(ReplyValue, "css")
    /\ Prop(Prop(resp.action, "payload"), "js") = Prop(ReplyValue, "js")
    /\ resp.context = [req.context EXCEPT !.goal = Str("completed")]

C8_Witness ==
  /\ Replied
  /\ agent = "CodeGenerationAgent"
  /\ CodegenAccepted
  /\ reply.text = Fenced(CodeFull)
  /\ resp.status = "COMPLETE"
  /\ Len(resp.context.history) = 3

\* C9: a code generation turn whose reply parses to an object is accepted
\* (COMPLETE) exactly when html, css and js are each a string, the empty
\* string included, and is answered with ERROR otherwise.
C9_PresenceAsString ==
  (Replied /\ agent = "CodeGenerationAgent" /\ ReplyParsed) =>
    LET strings == /\ IsString(Prop(ReplyValue, "html"))
                   /\ IsString(Prop(ReplyValue, "css"))
                   /\ IsString(Prop(ReplyValue, "js"))
    IN /\ strings => resp.status = "COMPLETE"
       /\ ~strings => resp.status = "ERROR"

\* C10: a code generation turn whose generation call throws, whose reply
\* does not parse, or whose reply fails the agent's validation returns
\* ERROR, no action, a BUTTON_GROUP of the one button Retry Generation, and
\* the incoming context with goal = onboard_user.
C10_CodegenFailure ==
  (Replied /\ agent = "CodeGenerationAgent" /\ ~CodegenAccepted) =>
    /\ IsAgentResponse
    /\ resp.status = "ERROR"
    /\ resp.action = Null
    /\ Prop(resp.ui, "type") = Str("BUTTON_GROUP")
    /\ LET buttons == Prop(Prop(resp.ui, "props"), "buttons")
       IN /\ buttons.type = "array"
          /\ Len(buttons.val) = 1
          /\ Prop(buttons.val[1], "text") = Str("Retry Generation")
    /\ resp.context = [req.context EXCEPT !.goal = Str("onboard_user")]

C10_Witness ==
  /\ Replied
  /\ agent = "CodeGenerationAgent"
  /\ ReplyParsed
  /\ ~CodegenAccepted
  /\ req.context.onboarding_state = Str("FINALIZING")
  /\ resp.status = "ERROR"
  /\ resp.context.goal = Str("onboard_user")

\* C11: in a conversation driven by the echoing caller, the turn after a
\* CodeGenerationAgent ERROR response is handled by OnboardingAgent, and
\* CodeGenerationAgent handles a later turn only after an onboarding turn in
\* between whose reply had next_state = FINALIZING; two consecutive turns
\* never both run a failing generation.
C11_RetryReentersOnboarding ==
  /\ \A i \in 1..(Len(log) - 1) :
       (log[i].agent = "CodeGenerationAgent" /\ log[i].status = "ERROR") =>
         log[i + 1].agent = "OnboardingAgent"
  /\ \A i \in DOMAIN log, j \in DOMAIN log :
       (/\ i < j
        /\ log[i].agent = "CodeGenerationAgent"
        /\ log[i].status = "ERROR"
        /\ log[j].agent = "CodeGenerationAgent") =>
         \E k \in (i + 1)..(j - 1) :
           log[k].agent = "OnboardingAgent" /\ log[k].finalizing

C11_Witness ==
  \E i \in DOMAIN log :
    /\ i + 2 \in DOMAIN log
    /\ log[i].agent = "CodeGenerationAgent"
    /\ log[i].status = "ERROR"
    /\ log[i + 1].agent = "OnboardingAgent"
    /\ log[i + 1].finalizing
    /\ log[i + 2].agent = "CodeGenerationAgent"

\* The generation call of an editing turn returned a text from which
\* EditingAgent.parseLlmResponse extracts a value; EditReplyValue is it.
EditReplyParsed ==
  /\ agent = "EditingAgent"
  /\ genCalls = 1
  /\ ~reply.threw
  /\ BraceParse(reply.text).ok
EditReplyValue == BraceParse(reply.text).value
EditReplyStrings ==
  /\ EditReplyParsed
  /\ EditReplyValue.type = "object"
  /\ IsString(Prop(EditReplyValue, "html"))
  /\ IsString(Prop(EditReplyValue, "css"))
  /\ IsString(Prop(EditReplyValue, "js"))

\* C12: an editing turn whose reply parses to an object with html, css and
\* js all strings (empty ones included) returns COMPLETE with a
\* GENERATION_COMPLETE action whose payload is exactly the reply's three
\* fields, the incoming history followed by (user, prompt) and
\* (agent, confirmation), and goal = edit_code.
C12_EditingSuccess ==
  (Replied /\ EditReplyStrings) =>
    /\ IsAgentResponse
    /\ resp.status = "COMPLETE"
    /\ Prop(resp.action, "type") = Str("GENERATION_COMPLETE")
    /\ Prop(resp.action, "payload")
         = Obj(Code(Prop(EditReplyValue, "html"), Prop(EditReplyValue, "css"),
                    Prop(EditReplyValue, "js")))
    /\ resp.context.history
         = req.context.history
             \o <<<<"user", Str(req.prompt)>>, <<"agent", confirmationSpeech>>>>
    /\ resp.context.goal = Str("edit_code")
    /\ resp.context.collected_info = req.context.collected_info

C12_Witness ==
  /\ Replied
  /\ EditReplyStrings
  /\ reply.text = Bare(CodeEmptyCssJs)
  /\ resp.status = "COMPLETE"
  /\ Prop(Prop(resp.action, "payload"), "js") = Str("")
  /\ Len(resp.context.history) = 5

\* C13: an editing turn whose generation call throws, whose reply does not
\* parse, or whose parsed reply fails the validation returns AWAITING_INPUT
\* with ui = null and action = null, the incoming history followed by
\* (user, prompt) and (agent, apology), and the incoming goal and
\* collected_info.
C13_EditingFailure ==
  (Replied /\ agent = "EditingAgent" /\ genCalls = 1 /\ ~EditReplyStrings) =>
    /\ IsAgentResponse
    /\ resp.status = "AWAITING_INPUT"
    /\ resp.ui = Null
    /\ resp.action = Null
    /\ resp.speech = userFacingErrorSpeech
    /\ resp.context.history
         = req.context.history
             \o <<<<"user", Str(req.prompt)>>, <<"agent", userFacingErrorSpeech>>>>
    /\ resp.context.goal = req.context.goal
    /\ resp.context.collected_info = req.context.collected_info

C13_Witness ==
  /\ Replied
  /\ agent = "EditingAgent"
  /\ EditReplyParsed
  /\ reply.text = Bare(CodeNoJs)
  /\ resp.status = "AWAITING_INPUT"
  /\ Len(resp.context.history) = 5
  /\ resp.context.goal = Str("edit_code")

\* C14: every agent response whose action is GENERATION_COMPLETE carries a
\* payload whose html, css and js are all strings, and a response has status
\* COMPLETE exactly when it carries that action.
C14_ArtifactNeverPartial ==
  (Replied /\ IsAgentResponse) =>
    LET complete ==
          /\ resp.action # Null
          /\ Prop(resp.action, "type") = Str("GENERATION_COMPLETE")
    IN /\ complete =>
            /\ IsString(Prop(Prop(resp.action, "payload"), "html"))
            /\ IsString(Prop(Prop(resp.action, "payload"), "css"))
            /\ IsString(Prop(Prop(resp.action, "payload"), "js"))
       /\ resp.status = "COMPLETE" <=> complete

\* The parse step of each agent.
AgentParse(a, text) ==
  IF a = "EditingAgent" THEN BraceParse(text) ELSE FenceParse(text)

\* C15: for every agent's parse step, a reply that is a valid JSON object
\* wrapped in markdown fences, or in leading and trailing prose, parses to
\* what the bare object parses to, so such a reply never fails to parse.
C15_ParserTolerance ==
  (Replied /\ genCalls = 1 /\ ~reply.threw) =>
    \A f \in ReplyObjects :
      reply.text \in {Fenced(f), InProse(f)} =>
        /\ AgentParse(agent, reply.text).ok
        /\ AgentParse(agent, reply.text) = AgentParse(agent, Bare(f))

\* A raw reply with no '{', no '}', a last '}' before the first '{', or a
\* text from the first '{' to the last '}' that is not valid JSON.
Malformed(text) ==
  LET jsonStart == IndexOfOpen(text)
      jsonEnd == LastIndexOfClose(text)
  IN \/ jsonStart = 0
     \/ jsonEnd = 0
     \/ jsonEnd < jsonStart
     \/ ~JsonParse(SubSeq(text, jsonStart, jsonEnd)).ok

\* The response of the turn is the failure response of its agent.
FailureAnswered ==
  /\ IsAgentResponse
  /\ CASE agent = "OnboardingAgent" -> resp = OnboardingFailure(req.context, now)
       [] agent = "CodeGenerationAgent" -> resp = CodegenFailure(req.context, now)
       [] OTHER -> /\ resp.status = "AWAITING_INPUT"
                   /\ resp.speech = userFacingErrorSpeech

\* C16: for every agent, a raw reply that has no '{' or no '}', or whose text
\* from the first '{' to the last '}' is not valid JSON, makes the parse step
\* throw, and the agent answers with its failure response.
C16_ParserHardFailure ==
  (Replied /\ genCalls = 1 /\ ~reply.threw /\ Malformed(reply.text)) =>
    /\ ~AgentParse(agent, reply.text).ok
    /\ FailureAnswered

\* C17: for every turn an agent handles with a non-null incoming context, the
\* incoming history is a prefix of the returned history and every entry
\* appended has speaker user or agent.
C17_HistoryAppendOnly ==
  (Replied /\ IsAgentResponse /\ req.context # Null) =>
    LET incoming == req.context.history
        returned == resp.context.history
    IN /\ Len(incoming) <= Len(returned)
       /\ SubSeq(returned, 1, Len(incoming)) = incoming
       /\ \A i \in (Len(incoming) + 1)..Len(returned) :
            returned[i][1] \in {"user", "agent"}

C17_Witness ==
  /\ Replied
  /\ agent = "OnboardingAgent"
  /\ ReplyParsed
  /\ Len(req.context.history) = 3
  /\ Len(resp.context.history) = 5
  /\ resp.context.history[4][1] = "user"
  /\ resp.context.history[5][1] = "agent"

\* C18: any two responses produced in a conversation have different ids,
\* also when both are produced while the clock reads the same millisecond.
C18_DistinctIds ==
  \A i \in DOMAIN log, j \in DOMAIN log :
    (i # j /\ log[i].status # "none" /\ log[j].status # "none") =>
      log[i].id # log[j].id

\* C19: an agent response has status PROCESSING exactly when it is the
\* OnboardingAgent response to a reply with next_state = FINALIZING; the
\* responses of CodeGenerationAgent and EditingAgent never have it.
C19_ProcessingOnlyOnHandoff ==
  (Replied /\ IsAgentResponse) =>
    (resp.status = "PROCESSING" <=> (agent = "OnboardingAgent" /\ ReplyFinalizing))

C19_Witness ==
  /\ Replied
  /\ agent = "OnboardingAgent"
  /\ reply.text = Fenced(OnbFinal)
  /\ resp.status = "PROCESSING"
  /\ Prop(resp.action, "type") = Str("DELEGATE")
  /\ req.context.goal = Str("completed")

\* A continuation with well-formed replies from a returned context c (the
\* request's generatedCode g unchanged): the next turn is dispatched to an
\* agent, and an editing turn answered with a complete object, or an
\* onboarding turn answered with a finalizing reply followed by a generation
\* turn answered with a complete object, ends in COMPLETE.
CompletesFrom(c, g) ==
  LET code == Returned(Bare(CodeFull))
      d == Dispatch(c, g)
  IN CASE d = "EditingAgent" ->
            /\ ~EditingEscapes(g)
            /\ \A p \in FollowUps, r \in Rands :
                 EditingExecute(p, c, code, now, r).status = "COMPLETE"
       [] d = "CodeGenerationAgent" ->
            /\ CodegenCalls(c)
            /\ CodegenExecute(c, code, now).status = "COMPLETE"
       [] d = "OnboardingAgent" ->
            \A p \in FollowUps :
              LET handoff == OnboardingExecute(p, c, Returned(Bare(OnbFinal)), now)
              IN /\ handoff.status = "PROCESSING"
                 /\ Dispatch(handoff.context, g) = "CodeGenerationAgent"
                 /\ CodegenCalls(handoff.context)
                 /\ CodegenExecute(handoff.context, code, now).status = "COMPLETE"
       [] OTHER -> FALSE

\* C20: after a response with status ERROR or AWAITING_INPUT, the next turn
\* carrying the returned context and the same generatedCode is dispatched to
\* an agent and not failed by the router, and turns with well-formed replies
\* lead from that context to a COMPLETE response.
C20_CanContinue ==
  (Replied /\ IsAgentResponse /\ resp.status \in {"ERROR", "AWAITING_INPUT"}) =>
    /\ Dispatch(resp.context, req.generatedCode) # "MissingArtifact"
    /\ CompletesFrom(resp.context, req.generatedCode)

C20_Witness ==
  /\ Replied
  /\ agent = "CodeGenerationAgent"
  /\ genCalls = 0
  /\ resp.status = "ERROR"
  /\ Get(resp.context.collected_info, "key_features") = Str("fast")
  /\ Dispatch(resp.context, req.generatedCode) = "OnboardingAgent"
  /\ CompletesFrom(resp.context, req.generatedCode)

\* The generation call of the turn threw, its reply did not parse, or the
\* parsed reply failed the agent's validation.
GenerationFailed ==
  /\ genCalls = 1
  /\ \/ reply.threw
     \/ ~AgentParse(agent, reply.text).ok
     \/ agent = "CodeGenerationAgent" /\ ~CodegenAccepted
     \/ agent = "EditingAgent" /\ ~EditReplyStrings

\* C21: for each agent, a turn whose generation call throws, whose reply does
\* not parse or whose reply fails validation is answered with an
\* AgentResponse of the six fields id, status, speech, ui, action, context,
\* never with the router's internal-error payload.
C21_AgentBoundary ==
  (Replied /\ GenerationFailed) =>
    /\ IsAgentResponse
    /\ DOMAIN resp = {"kind", "id", "status", "speech", "ui", "action", "context"}
    /\ resp.status \in {"AWAITING_INPUT", "ERROR"}
    /\ resp.context # Null
    /\ resp.id.prefix \in {"error-", "error-codegen-", "error-edit-"}

C21_Witness ==
  /\ Replied
  /\ GenerationFailed
  /\ agent = "EditingAgent"
  /\ reply.threw
  /\ IsAgentResponse
  /\ resp.id.prefix = "error-edit-"

\* The turn has ended: a response was returned, or the body was rejected.
Resolved == phase \in {"replied", "rejected"}

\* C22: a turn whose body does not parse, whose goal is edit_code without an
\* artifact, or in which an exception leaves EditingAgent (an artifact with
\* html, css or js undefined or null) is answered by the router's catch with
\* the payload {error, details} and HTTP status 500, which has no
\* AgentResponse field and no context; every turn ends in an AgentResponse
\* or in that payload.
C22_RouterCatchAll ==
  /\ Resolved => resp.kind \in {"AgentResponse", "InternalError"}
  /\ (\/ phase = "rejected"
      \/ Replied /\ ReqGoal = Str("edit_code") /\ ~Truthy(req.generatedCode)
      \/ /\ Replied
         /\ agent = "EditingAgent"
         /\ \E k \in {"html", "css", "js"} :
              Prop(req.generatedCode, k) \in {Undefined, Null})
       => /\ resp.kind = "InternalError"
          /\ resp.httpStatus = "500"
          /\ DOMAIN resp = {"kind", "httpStatus", "error", "details"}
          /\ genCalls = 0

C22_Witness ==
  /\ Replied
  /\ agent = "EditingAgent"
  /\ Prop(req.generatedCode, "html") = Str("<p>A</p>")
  /\ Prop(req.generatedCode, "css") = Undefined
  /\ resp.kind = "InternalError"
  /\ resp.details = "TypeError"

\* C23: a code generation turn in which reading or parsing the dataset fails
\* gets the empty set from getBaselineCssProperties, leaves the cache empty,
\* and goes on to the generation call; it is answered with ERROR only when
\* the prompt, the generation call or the validation fails, as without the
\* load failure.
C23_LoadFailureDegrades ==
  (Replied /\ agent = "CodeGenerationAgent" /\ loader.failed) =>
    /\ loader.props = {}
    /\ baselineCssCache = CacheEmpty
    /\ IsAgentResponse
    /\ ~CodegenPromptThrows(req.context.collected_info) => genCalls = 1
    /\ CodegenAccepted => resp.status = "COMPLETE"
    /\ resp.status = "ERROR" => ~CodegenAccepted

C23_Witness ==
  /\ Replied
  /\ agent = "CodeGenerationAgent"
  /\ loader.failed
  /\ loader.read
  /\ loader.props = {}
  /\ genCalls = 1
  /\ reply.text = Bare(CodeFull)
  /\ resp.status = "COMPLETE"

\* C24 as stated: the dataset is read at most once in the life of the
\* process, and every call after the first returns the cached set.
C24_ReadAtMostOnce ==
  /\ loader.reads <= 1
  /\ \A i \in DOMAIN log, j \in DOMAIN log :
       (/\ i < j
        /\ log[i].agent = "CodeGenerationAgent"
        /\ j = Len(log)
        /\ Replied
        /\ agent = "CodeGenerationAgent") => ~loader.read

\* C24, amended: once the cache is populated, no step replaces or resets it
\* and no step reads the dataset again; while it is empty (no call yet, or
\* every load so far failed) each call reads the dataset.
C24_PopulatedOnce ==
  [][/\ baselineCssCache.loaded =>
          /\ baselineCssCache' = baselineCssCache
          /\ loader'.reads = loader.reads
     /\ (~baselineCssCache.loaded /\ agent' = "CodeGenerationAgent"
           /\ phase' = "replied" /\ phase = "pending") =>
          /\ loader'.reads = loader.reads + 1
          /\ loader'.read]_vars

C24_Witness ==
  /\ Replied
  /\ agent = "CodeGenerationAgent"
  /\ \E i \in 1..(Len(log) - 1) : log[i].agent = "CodeGenerationAgent"
  /\ baselineCssCache = Cached(BaselineProperties)
  /\ loader.reads = 1
  /\ ~loader.read
  /\ loader.props = BaselineProperties

C26_OneGenerationCall ==
  /\ phase = "rejected" => genCalls = 0
  /\ Replied =>
       /\ genCalls \in {0, 1}
       /\ genCalls = 1 =>
            /\ agent = Dispatch(req.context, req.generatedCode)
            /\ agent \in {"OnboardingAgent", "CodeGenerationAgent", "EditingAgent"}
            /\ reply \in Outcomes
       /\ genCalls = 0 => reply = NoOutcome
       /\ req.context = Null => genCalls = 0
       /\ (ReqGoal = Str("edit_code") /\ ~Truthy(req.generatedCode)) => genCalls = 0
       /\ agent = "none" => genCalls = 0

C26_Witness ==
  /\ Replied
  /\ agent = "OnboardingAgent"
  /\ req.context # Null
  /\ reply.threw
  /\ genCalls = 1
  /\ resp.speech = onboardingApology

\* A reply without its id.
SansId(r) == [k \in DOMAIN r \ {"id"} |-> r[k]]

C28_StateInDomain ==
  (Replied /\ IsAgentResponse) =>
    resp.context.onboarding_state \in {Str(s) : s \in OnboardingStates}

\* The interview order of the onboarding prompt.
StateOrder == <<"GREETING", "CORE_INFO", "DEEP_DIVE", "BRANDING", "FINALIZING">>

\* C29: on every onboarding turn that takes the success path, the returned
\* onboarding_state is the incoming one, its immediate successor in the
\* interview order, or FINALIZING.
C29_TransitionRule ==
  (Replied /\ agent = "OnboardingAgent" /\ genCalls = 1 /\ ~OnboardingThrows(reply)) =>
    LET incoming == req.context.onboarding_state
        returned == resp.context.onboarding_state
    IN \/ returned = incoming
       \/ returned = Str("FINALIZING")
       \/ \E i \in 1..(Len(StateOrder) - 1) :
            incoming = Str(StateOrder[i]) /\ returned = Str(StateOrder[i + 1])

\* C30: every turn either resolves with a reply or stays suspended at its
\* generation call; a turn that resolves has sent exactly one reply, an
\* AgentResponse or the router's payload, and sends nothing after it; a
\* turn suspended at a generation call that never settles has sent no
\* reply and never sends one; only a turn that issued a generation call is
\* ever suspended.
C30_TurnTermination ==
  /\ (phase \in {"pending", "unparsed"}) ~> (Resolved \/ phase = "awaiting")
  /\ [](Resolved =>
          /\ Len(log) = 1
          /\ resp.kind \in {"AgentResponse", "InternalError"})
  /\ [][Resolved => (resp' = resp /\ log' = log /\ phase' = phase)]_vars
  /\ [](phase = "awaiting" =>
          /\ resp = NoResponse
          /\ log = <<>>
          /\ genCalls = 1
          /\ agent \in {"OnboardingAgent", "CodeGenerationAgent", "EditingAgent"}
          /\ req.context # Null)
  /\ [][phase = "awaiting" => phase' = "awaiting"]_vars

C30_Witness ==
  /\ phase = "awaiting"
  /\ agent = "EditingAgent"
  /\ genCalls = 1
  /\ resp = NoResponse
  /\ log = <<>>

\* ---------------------------------------------------------------------------
\* The onboarding prompt window

\* The turn just answered was an onboarding turn with a context.
OnboardingTurn ==
  phase = "replied" /\ agent = "OnboardingAgent" /\ req.context # Null

\* The history the system prompt of the turn just answered embedded.
Shown == log[Len(log)].shown

\* C31: the history embedded in the onboarding prompt is the last
\* min(6, n+1) entries of the incoming history (length n) extended with
\* (user, prompt): its last entry is the current user prompt, no older
\* entry is shown, and the history stored in the returned context is not
\* truncated (it still starts with the whole incoming history).
C31_PromptWindow ==
  OnboardingTurn =>
    LET incoming == req.context.history
        n == Len(incoming)
        updated == incoming \o <<<<"user", Str(req.prompt)>>>>
        k == IF n + 1 < 6 THEN n + 1 ELSE 6
    IN /\ Len(Shown) = k
       /\ Shown[k] = <<"user", Str(req.prompt)>>
       /\ \A i \in 1..k : Shown[i] = updated[n + 1 - k + i]
       /\ Len(resp.context.history) >= n
       /\ SubSeq(resp.context.history, 1, n) = incoming

\* An onboarding turn whose incoming history is longer than the window and
\* whose reply was accepted: older entries were left out of the prompt and
\* kept in the stored history.
C31_Witness ==
  /\ OnboardingTurn
  /\ Len(req.context.history) >= 6
  /\ Len(Shown) < Len(req.context.history)
  /\ Len(resp.context.history) = Len(req.context.history) + 2

\* C32: an onboarding turn whose reply is accepted extends the history by
\* exactly two entries, (user, prompt) then (agent, the model's speech), when
\* it does not finalize; when it finalizes it extends it by exactly three,
\* the third being (agent, the fixed completion speech), and the response's
\* speech is the fixed completion speech, not the model's.
C32_HistoryGrowth ==
  (OnboardingTurn /\ ReplyParsed) =>
    LET incoming == req.context.history
        said == <<<<"user", Str(req.prompt)>>, <<"agent", Prop(ReplyValue, "speech")>>>>
    IN IF ReplyFinalizing
       THEN /\ resp.context.history = incoming \o said \o <<<<"agent", finalSpeech>>>>
            /\ resp.speech = finalSpeech
            /\ resp.speech # Prop(ReplyValue, "speech")
       ELSE /\ resp.context.history = incoming \o said
            /\ resp.speech = Prop(ReplyValue, "speech")

\* A finalizing turn after a non-finalizing one in the same conversation:
\* the history has grown by two and then by three.
C32_Witness ==
  /\ OnboardingTurn /\ ReplyFinalizing
  /\ Len(log) >= 3
  /\ log[Len(log) - 1].agent = "OnboardingAgent"
  /\ log[Len(log) - 1].status = "AWAITING_INPUT"
  /\ Len(resp.context.history) = Len(req.context.history) + 3
  /\ Len(req.context.history) = 3

\* ---------------------------------------------------------------------------
\* Frame conditions of the code-handling agents

\* C33: a response of CodeGenerationAgent, success or failure, carries the
\* incoming history, collected_info and onboarding_state (only goal may
\* differ); a response of EditingAgent, success or failure, carries the
\* incoming collected_info and onboarding_state (only history, and on success
\* goal, may differ); and answering the turn leaves the request, its context
\* and its artifact, as it was sent.
C33_CodeAgentFrames ==
  [][(phase = "pending" /\ phase' = "replied"
        /\ agent' \in {"CodeGenerationAgent", "EditingAgent"}
        /\ resp'.kind = "AgentResponse") =>
       /\ req' = req
       /\ resp'.context.collected_info = req.context.collected_info
       /\ resp'.context.onboarding_state = req.context.onboarding_state
       /\ agent' = "CodeGenerationAgent" =>
            /\ resp'.context.history = req.context.history
            /\ resp'.context = [req.context EXCEPT !.goal = resp'.context.goal]
       /\ agent' = "EditingAgent" =>
            /\ resp'.context =
                 [req.context EXCEPT !.history = resp'.context.history,
                                     !.goal = resp'.context.goal]
            /\ resp'.status # "COMPLETE" => resp'.context.goal = req.context.goal]_vars

\* An accepted edit of a conversation that has a brief and an onboarding
\* state: the history has grown and the brief is the incoming one.
C33_Witness ==
  /\ Replied /\ agent = "EditingAgent" /\ IsAgentResponse
  /\ resp.status = "COMPLETE"
  /\ req.context.collected_info # EmptyObject
  /\ resp.context.collected_info = req.context.collected_info
  /\ resp.context.history # req.context.history

\* ---------------------------------------------------------------------------
\* The page and the router composed

\* The requests a step of the page sends.
NewRequests == client'.inflight \ client.inflight

\* C34: once the page has stored an artifact, every request it sends carries
\* goal edit_code together with that artifact, and is therefore dispatched
\* to EditingAgent.
C34_EditMode ==
  [][Truthy(client.generatedCode) =>
       \A r \in NewRequests :
         /\ r.body.context # Null
         /\ r.body.context.goal = Str("edit_code")
         /\ r.body.generatedCode = client.generatedCode
         /\ Dispatch(r.body.context, r.body.generatedCode) = "EditingAgent"]_vars

\* C35: the page never has two requests in flight at the same time.
C35_SingleInFlight == Cardinality(client.inflight) <= 1

\* C36: every request the page sends carries the context, and in edit mode
\* the artifact, that the page has stored from the most recent successful
\* response (with the goal forced to edit_code in edit mode).
C36_LatestContext ==
  [][\A r \in NewRequests :
       /\ r.body.context \in {client.context, EditContext(client.context)}
       /\ r.body.generatedCode =
            (IF Truthy(client.generatedCode) THEN client.generatedCode ELSE Undefined)]_vars

\* The requests a step of the page settles.
SettledRequests == client.inflight \ client'.inflight

\* C37: when a request fails (the fetch rejects or the response is not OK)
\* the page keeps its stored context and artifact, shows the ERROR response
\* with the fixed id error_state, and resets isLoading; isLoading is reset
\* when any request settles, successful or not.
C37_FailedRequest ==
  [][\A r \in SettledRequests :
       /\ client'.isLoading = FALSE
       /\ (r.seq # client.handling \/ resp.kind # "AgentResponse") =>
            /\ client'.context = client.context
            /\ client'.generatedCode = client.generatedCode
            /\ client'.activeResponse.id = Id("error_state", 0, "")
            /\ client'.activeResponse.status = "ERROR"]_vars

\* A request of edit mode has failed: the page shows the error and still
\* holds the conversation and the artifact.
C37_Witness ==
  /\ client.activeResponse.status = "ERROR"
  /\ client.activeResponse.id = Id("error_state", 0, "")
  /\ client.context # Null
  /\ Truthy(client.generatedCode)
  /\ ~client.isLoading
  /\ client.inflight = {}

GenerationStep ==
  /\ phase = "pending"
  /\ phase' \in {"replied", "awaiting"}
  /\ agent' = "CodeGenerationAgent"

\* C39: a call of getBaselineCssProperties whose load fails returns the empty
\* set and leaves the cache unassigned, so that a call after it reads the
\* dataset again; the cache is assigned only by a call whose load succeeded,
\* and then holds the set that call returned; a cache assigned an empty set
\* by a successful load is a hit like any other.
C39_FailureNotCached ==
  [][/\ (GenerationStep /\ loader'.failed) =>
          /\ loader'.props = {}
          /\ baselineCssCache' = CacheEmpty
          /\ baselineCssCache = CacheEmpty
          /\ \A load \in LoadOutcomes :
               getBaselineCssProperties(baselineCssCache', load).read
     /\ baselineCssCache' # baselineCssCache =>
          /\ GenerationStep
          /\ loader'.read /\ ~loader'.failed
          /\ baselineCssCache' = Cached(loader'.props)
     /\ (GenerationStep /\ baselineCssCache = Cached({})) =>
          /\ ~loader'.read
          /\ loader'.props = {}
          /\ baselineCssCache' = baselineCssCache]_vars

\* A code generation turn whose load failed: the dataset was read, the empty
\* set was returned and the cache is still unassigned.
C39_Witness ==
  /\ Replied
  /\ agent = "CodeGenerationAgent"
  /\ loader.failed /\ loader.read
  /\ loader.reads = 1
  /\ loader.props = {}
  /\ ~baselineCssCache.loaded

\* ---------------------------------------------------------------------------
\* The goal of the conversation

GoalDomain ==
  {Str("onboard_user"), Str("generate_landing_page"), Str("edit_code"),
   Str("completed")}

\* C40: in a conversation that the page drives from a null context (sending
\* back the stored context, with the goal forced to edit_code in edit mode),
\* the goal of every returned context is onboard_user, generate_landing_page,
\* edit_code or completed. Against the goal of the request, a response
\* changes it only on the finalize handoff (to generate_landing_page), on
\* code generation success (to completed), on code generation failure (to
\* onboard_user) and on editing success (to edit_code); every other response
\* returns the goal it received, and turn 0 starts at onboard_user.
C40_GoalInDomain ==
  [][(phase = "pending" /\ phase' = "replied" /\ resp'.kind = "AgentResponse") =>
       LET goal == resp'.context.goal IN
       /\ goal \in GoalDomain
       /\ IF req.context = Null
          THEN goal = Str("onboard_user")
          ELSE CASE agent' = "OnboardingAgent" /\ resp'.status = "PROCESSING" ->
                      goal = Str("generate_landing_page")
                 [] agent' = "CodeGenerationAgent" /\ resp'.status = "COMPLETE" ->
                      goal = Str("completed")
                 [] agent' = "CodeGenerationAgent" /\ resp'.status = "ERROR" ->
                      goal = Str("onboard_user")
                 [] agent' = "EditingAgent" /\ resp'.status = "COMPLETE" ->
                      goal = Str("edit_code")
                 [] OTHER -> goal = req.context.goal]_vars

\* An accepted edit at the end of a conversation whose goal has been
\* onboard_user, generate_landing_page and completed.
C40_Witness ==
  /\ phase = "replied"
  /\ agent = "EditingAgent"
  /\ resp.status = "COMPLETE"
  /\ client.context.goal = Str("completed")
  /\ req.context.goal = Str("edit_code")
  /\ resp.context.goal = Str("edit_code")

====
